---- MODULE Spec2Model ----
(***************************************************************************)
(* A model of the App Service extension's code:                            *)
(*   - CosmosDBDatabase: the connection-id label parser                    *)
(*       (src/src/explorer/CosmosDBDatabase.ts, lines 9-41);               *)
(*   - SiteNodeBase.browse, localGitDeploy, connectToLogStream,            *)
(*     stopLogStream                                                       *)
(*       (src/src/explorer/CosmosDBDatabase.ts, lines 62-198);             *)
(*   - deploy() (src/tslint.json, lines 100-242).                          *)
(*                                                                         *)
(* Strings are sequences of tokens: a token is one of the marker texts the *)
(* code searches for, or a single character.  A JavaScript async function  *)
(* runs to completion between two awaits, so every action is one such run: *)
(* the settling of the awaited promise and all the code up to the next     *)
(* await, return or throw.                                                 *)
(***************************************************************************)
EXTENDS Integers, Sequences, FiniteSets, TLC

VARIABLES
    \* ---- CosmosDBDatabase ----
    connectionId,     \* the constructor's argument
    label,            \* this.label
    ctor,             \* "new" | "constructed" | "threw"
    ctorError,        \* the message of the error the constructor threw
    \* ---- SiteNodeBase.localGitDeploy ----
    isSlot,           \* util.isSiteDeploymentSlot(this.site)
    rootPath,         \* whether workspace.rootPath is set
    localGit,         \* the call: where it is, its locals, how it ended
    shown,            \* the messages localGitDeploy has shown, in order
    opened,           \* what it has opened: the portal (openInPortal), a page (opn)
    gitCalls,         \* the simple-git calls it has made, in order
    gitErrors,        \* the errors those calls have rejected with, in order
    armCalls,         \* the webSiteClient.webApps calls it has made, in order
    \* ---- SiteNodeBase.connectToLogStream / stopLogStream ----
    _logStream,       \* this._logStream: a stream (its number), or null (0)
    _logStreamOutputChannel,  \* whether this._logStreamOutputChannel is created
    output,           \* what the output channel has been given, in order
    streams,          \* every stream getLogStream() has returned, in order
    connects,         \* every connectToLogStream call, in order: where it is
    events,           \* the events the streams have emitted, in order
    telemetry,        \* the util.sendTelemetry calls, in order
    lastCall,         \* the method last called on the node, of the two
    \* ---- SiteNodeBase.browse ----
    site,             \* this.site (readonly): defaultHostName and hostNameSslStates
    browsed,          \* the uris browse() has opened (opn), in order
    \* ---- deploy() ----
    deployCall,       \* the call: where it is, its locals, how it ended
    context,          \* the fields of context that deploy() reads and writes
    showBuildDuringDeployPrompt,  \* the workspace setting of that name
    defaultWebAppToDeploy,        \* the workspace setting of that name
    listening,        \* whether the onTreeItemCreate listener is subscribed
    created,          \* the tree items created, in order, and whether while listening
    steps,            \* the calls deploy() has made and seen return, in order
    savePrompt,       \* the promise of node.promptToSaveDeployDefaults
    notification,     \* the promise of the 'completed' notification
    validation        \* the promise of validateWebSite

labelVars == <<connectionId, label, ctor, ctorError>>

gitVars == <<isSlot, rootPath, localGit, shown, opened, gitCalls, gitErrors, armCalls>>

logVars ==
    <<_logStream, _logStreamOutputChannel, output, streams, connects, events, telemetry,
      lastCall>>

deployVars ==
    <<deployCall, context, showBuildDuringDeployPrompt, defaultWebAppToDeploy, listening,
      created, steps, savePrompt, notification, validation>>

browseVars == <<site, browsed>>

vars == <<labelVars, gitVars, logVars, deployVars, browseVars>>

\* The variables of the other parts: a part's actions leave them alone.
notLabelVars == <<gitVars, logVars, deployVars, browseVars>>

notGitVars == <<labelVars, logVars, deployVars, browseVars>>

notLogVars == <<labelVars, gitVars, deployVars, browseVars>>

notDeployVars == <<labelVars, gitVars, logVars, browseVars>>

notBrowseVars == <<labelVars, gitVars, logVars, deployVars>>

\* ------------------------------------------------------------------ bounds

\* Longest connection id, in tokens.
MaxIdLen == 5

\* Longest path after the account marker of an id of the usual shape.
MaxPathLen == 3

\* Longest hostNameSslStates list, and the most browse() calls.
MaxSslStates == 3

MaxBrowses == 2

\* Deployment ids, and the longest deployment list.
MaxDeploymentId == 2

MaxDeployments == 2

\* Longest error message of git, in tokens.
MaxMessageLen == 2

\* The connectToLogStream calls made on the node, and the events its streams emit.
MaxConnects == 2

MaxEvents == 3

\* The web apps of the tree, and the tree items created while deploy() runs.
MaxNodes == 2

MaxCreated == 2

\* ----------------------------------------------------------------- helpers

SeqsUpTo(S, n) == UNION {[1..k -> S] : k \in 0..n}

Max(S) == CHOOSE x \in S : \A y \in S : y <= x

Min(S) == CHOOSE x \in S : \A y \in S : x <= y

\* ======================================================= CosmosDBDatabase

Subscriptions == "subscriptions/"

ResourceGroups == "resourceGroups/"

Providers == "providers/"

DatabaseAccounts == "databaseAccounts/"

AttachedAccounts == "cosmosDBAttachedAccounts/"

Slash == "/"

\* A line terminator: the one character a regular expression's '.' refuses.
LineBreak == "\n"

Markers == {Subscriptions, ResourceGroups, Providers, DatabaseAccounts, AttachedAccounts}

IdTokens == Markers \cup {"a", Slash, LineBreak}

\* The ids the explorer hands to the constructor: an ARM resource id, or an
\* attached account's id, followed by a path.
IdPaths == SeqsUpTo({"a", Slash}, MaxPathLen)

ArmAccountPrefix ==
    <<Slash, Subscriptions, "a", Slash, ResourceGroups, "a", Slash,
      Providers, "a", Slash, DatabaseAccounts>>

ConnectionIds ==
    SeqsUpTo(IdTokens, MaxIdLen)
        \cup {ArmAccountPrefix \o path : path \in IdPaths}
        \cup {<<AttachedAccounts>> \o path : path \in IdPaths}

\* The end of the line that position p of s is on: '.*' runs up to it.
LineEnd(s, p) ==
    CHOOSE e \in p..Len(s) :
        /\ \A q \in p..e : s[q] # LineBreak
        /\ e = Len(s) \/ s[e + 1] = LineBreak

\* The positions lo..hi of s that hold the literal tok.
Pos(s, tok, lo, hi) == {p \in lo..hi : s[p] = tok}

\* Whether the rest of the pattern can match from each literal on, up to the
\* end e of the line: what the regular expression engine backtracks over.
CanMatchAccounts(s, k, e) == Pos(s, DatabaseAccounts, k + 1, e) # {}

CanMatchProviders(s, j, e) ==
    \E k \in Pos(s, Providers, j + 1, e) : CanMatchAccounts(s, k, e)

CanMatchGroups(s, i, e) ==
    \E j \in Pos(s, ResourceGroups, i + 1, e) : CanMatchProviders(s, j, e)

\* The positions at which
\* 'subscriptions/(.*)resourceGroups/(.*)providers/(.*)databaseAccounts/(.*)'
\* matches s.
CosmosStarts(s) ==
    {i \in Pos(s, Subscriptions, 1, Len(s)) : CanMatchGroups(s, i, LineEnd(s, i))}

\* null, for a match array (a match array has at least one element).
Null == <<>>

\* The label of an object whose constructor has not assigned it.
NoLabel == <<"undefined">>

\* A mutant of ParseCosmos: the third group is lazy, '(.*?)databaseAccounts/'.
ParseCosmosLazy(id) ==
    IF CosmosStarts(id) = {} THEN Null
    ELSE LET i == Min(CosmosStarts(id))
             e == LineEnd(id, i)
             j == Max({p \in Pos(id, ResourceGroups, i + 1, e) : CanMatchProviders(id, p, e)})
             k == Max({p \in Pos(id, Providers, j + 1, e) : CanMatchAccounts(id, p, e)})
             l == Min(Pos(id, DatabaseAccounts, k + 1, e))
         IN <<SubSeq(id, i, e), SubSeq(id, i + 1, j - 1), SubSeq(id, j + 1, k - 1),
              SubSeq(id, k + 1, l - 1), SubSeq(id, l + 1, e)>>

\* parseCosmos: String.prototype.match with a non-global pattern returns the
\* leftmost match, every '(.*)' as long as the rest of the pattern allows:
\* [whole match, group 1, group 2, group 3, group 4], or null.
ParseCosmos(id) ==
    LET matches ==
            IF CosmosStarts(id) = {} THEN Null
            ELSE LET i == Min(CosmosStarts(id))
                     e == LineEnd(id, i)
                     j == Max({p \in Pos(id, ResourceGroups, i + 1, e) :
                                  CanMatchProviders(id, p, e)})
                     k == Max({p \in Pos(id, Providers, j + 1, e) :
                                  CanMatchAccounts(id, p, e)})
                     l == Max(Pos(id, DatabaseAccounts, k + 1, e))
                 IN <<SubSeq(id, i, e), SubSeq(id, i + 1, j - 1), SubSeq(id, j + 1, k - 1),
                      SubSeq(id, k + 1, l - 1), SubSeq(id, l + 1, e)>>
    IN IF matches = Null \/ Len(matches) < 5 THEN Null ELSE matches

\* A mutant of ParseAttached: the match starts at the last marker of the id.
ParseAttachedLast(id) ==
    LET P == Pos(id, AttachedAccounts, 1, Len(id)) IN
    IF P = {} THEN Null
    ELSE LET i == Max(P)
             e == LineEnd(id, i)
         IN <<SubSeq(id, i, e), SubSeq(id, i + 1, e)>>

\* parseAttached: 'cosmosDBAttachedAccounts/(.*)', the leftmost match:
\* [whole match, group 1], or null.
ParseAttached(id) ==
    LET P == Pos(id, AttachedAccounts, 1, Len(id))
        matches ==
            IF P = {} THEN Null
            ELSE LET i == Min(P)
                     e == LineEnd(id, i)
                 IN <<SubSeq(id, i, e), SubSeq(id, i + 1, e)>>
    IN IF matches = Null \/ Len(matches) < 2 THEN Null ELSE matches

ParseFailure == "Failed to parse connection id"

\* getLabel: the last element of the match array, or the error thrown.
GetLabel(id) ==
    LET items == IF ParseCosmos(id) # Null THEN ParseCosmos(id) ELSE ParseAttached(id)
    IN IF items = Null
       THEN [threw |-> TRUE, error |-> ParseFailure, value |-> NoLabel]
       ELSE [threw |-> FALSE, error |-> "", value |-> items[Len(items)]]

\* new CosmosDBDatabase(client, connectionId)
Construct ==
    /\ ctor = "new"
    /\ LET r == GetLabel(connectionId) IN
       IF r.threw
       THEN /\ ctor' = "threw"
            /\ ctorError' = r.error
            /\ UNCHANGED label
       ELSE /\ ctor' = "constructed"
            /\ label' = r.value
            /\ UNCHANGED ctorError
    /\ UNCHANGED <<notLabelVars, connectionId>>

\* ============================================ SiteNodeBase.localGitDeploy

\* config.scmType: 'LocalGit' (line 141) and two of the other values.
LocalGit == "LocalGit"

ScmTypes == {LocalGit, "None", "GitHub"}

\* The deployments listDeployments returns, newest first.
Deployments == [deploymentId : 1..MaxDeploymentId]

Histories == SeqsUpTo(Deployments, MaxDeployments)

\* What an error message of simple-git is made of.
GitNotInstalled == "spawn git ENOENT"

PushFailed == "error: failed to push"

MessageTokens == {GitNotInstalled, PushFailed, "fatal: "}

GitMessages == SeqsUpTo(MessageTokens, MaxMessageLen) \ {<<>>}

\* String.prototype.indexOf: the place of the first occurrence (counted in
\* tokens, from 0), or -1.
IndexOf(message, text) ==
    LET P == {p \in 1..Len(message) : message[p] = text} IN
    IF P = {} THEN -1 ELSE Min(P) - 1

\* undefined: what a message box resolves to when it is dismissed.
Dismissed == "undefined"

NotSetUp == "Local Git Deployment is not set up. Set it up in the Azure Portal."

NoFolderOpen == "You have not yet opened a folder to deploy."

GitRequired == "Git must be installed to use Local Git Deploy."

PushRejected == "Push rejected due to Git history diverging. Force push?"

RepoIsCurrent == "Local Git repo is current with \"${repo}\"."

GoToPortal == "Go to Portal"

Install == "Install"

Yes == "Yes"

PortalDeepLink == "https://portal.azure.com/${tenantId}/#resource${site.id}"

GitDownloads == "https://git-scm.com/downloads"

\* window.showErrorMessage / window.showWarningMessage
ErrorMessage(message, items) == [kind |-> "error", message |-> message, items |-> items]

WarningMessage(message) == [kind |-> "warning", message |-> message, items |-> <<>>]

\* The answers to a message box: one of its items, or none.
Answers(items) == {items[p] : p \in 1..Len(items)} \cup {Dismissed}

\* A call of this.webSiteClient.webApps: the slot's variant for a slot.
WebApps(name) == [call |-> name, slot |-> isSlot]

\* The errors of the call.
ArmError == [from |-> "webApps", message |-> <<"request failed">>]

GitError(from, message) == [from |-> from, message |-> message]

NewError(message) == [from |-> "localGitDeploy", message |-> <<message>>]

\* Reading .deploymentId of newDeployment[0] or oldDeployment[0] when the list is empty.
TypeError == [from |-> "TypeError", message |-> <<"Cannot read property 'deploymentId' of undefined">>]

\* async localGitDeploy(): up to the first await (lines 131-133).
LocalGitDeploy ==
    /\ localGit.pc = "idle"
    /\ localGit' = [localGit EXCEPT !.pc = "listPublishingCredentials"]
    /\ armCalls' = Append(armCalls, WebApps("listPublishingCredentials"))
    /\ UNCHANGED <<notGitVars, gitErrors, isSlot, rootPath, shown, opened, gitCalls>>

\* listPublishingCredentials settles; getConfiguration is called (lines 134-136).
CredentialsSettle ==
    /\ localGit.pc = "listPublishingCredentials"
    /\ \/ /\ localGit' = [localGit EXCEPT !.pc = "getConfiguration"]
          /\ armCalls' = Append(armCalls, WebApps("getConfiguration"))
       \/ /\ localGit' = [localGit EXCEPT !.pc = "rejected", !.thrown = ArmError]
          /\ UNCHANGED armCalls
    /\ UNCHANGED <<notGitVars, gitErrors, isSlot, rootPath, shown, opened, gitCalls>>

\* getConfiguration settles; listDeployments is called (lines 137-139).
ConfigurationSettle ==
    /\ localGit.pc = "getConfiguration"
    /\ \/ \E scmType \in ScmTypes :
            /\ localGit' = [localGit EXCEPT !.pc = "listDeployments", !.config = scmType]
            /\ armCalls' = Append(armCalls, WebApps("listDeployments"))
       \/ /\ localGit' = [localGit EXCEPT !.pc = "rejected", !.thrown = ArmError]
          /\ UNCHANGED armCalls
    /\ UNCHANGED <<notGitVars, gitErrors, isSlot, rootPath, shown, opened, gitCalls>>

\* A mutant of CheckSetUp: git is run whatever the scmType is.
CheckSetUpAnyScmType(call) ==
    IF ~rootPath
    THEN /\ localGit' = [call EXCEPT !.pc = "showNoFolderOpen"]
         /\ shown' = Append(shown, ErrorMessage(NoFolderOpen, <<>>))
         /\ UNCHANGED gitCalls
    ELSE /\ localGit' = [call EXCEPT !.pc = "git.init"]
         /\ gitCalls' = Append(gitCalls, "init")
         /\ UNCHANGED shown

\* A mutant of CheckSetUp: git is run whether or not a folder is open.
CheckSetUpAnyRootPath(call) ==
    IF call.config # LocalGit
    THEN /\ localGit' = [call EXCEPT !.pc = "showNotSetUp"]
         /\ shown' = Append(shown, ErrorMessage(NotSetUp, <<GoToPortal>>))
         /\ UNCHANGED gitCalls
    ELSE /\ localGit' = [call EXCEPT !.pc = "git.init"]
         /\ gitCalls' = Append(gitCalls, "init")
         /\ UNCHANGED shown

\* Lines 141-161, with oldDeployment read: the scmType check, the open-folder
\* check, and the call of git.init().
CheckSetUp(call) ==
    IF call.config # LocalGit
    THEN /\ localGit' = [call EXCEPT !.pc = "showNotSetUp"]
         /\ shown' = Append(shown, ErrorMessage(NotSetUp, <<GoToPortal>>))
         /\ UNCHANGED gitCalls
    ELSE IF ~rootPath
    THEN /\ localGit' = [call EXCEPT !.pc = "showNoFolderOpen"]
         /\ shown' = Append(shown, ErrorMessage(NoFolderOpen, <<>>))
         /\ UNCHANGED gitCalls
    ELSE /\ localGit' = [call EXCEPT !.pc = "git.init"]
         /\ gitCalls' = Append(gitCalls, "init")
         /\ UNCHANGED shown

\* listDeployments settles: oldDeployment (lines 137-139), then lines 141-161.
OldDeploymentSettle ==
    /\ localGit.pc = "listDeployments"
    /\ \/ \E history \in Histories :
            CheckSetUp([localGit EXCEPT !.oldDeployment = history])
       \/ /\ localGit' = [localGit EXCEPT !.pc = "rejected", !.thrown = ArmError]
          /\ UNCHANGED <<shown, gitCalls>>
    /\ UNCHANGED <<notGitVars, gitErrors, isSlot, rootPath, opened, armCalls>>

\* The 'not set up' message is answered (lines 143-146).
NotSetUpAnswered ==
    /\ localGit.pc = "showNotSetUp"
    /\ \E input \in Answers(<<GoToPortal>>) :
         /\ opened' = IF input = GoToPortal THEN Append(opened, PortalDeepLink) ELSE opened
         /\ localGit' = [localGit EXCEPT !.pc = "rejected", !.input = input,
                                         !.thrown = NewError(NotSetUp)]
    /\ UNCHANGED <<notGitVars, gitErrors, isSlot, rootPath, shown, gitCalls, armCalls>>

\* The 'no folder' message is answered (lines 155-156): return, with no value.
NoFolderOpenAnswered ==
    /\ localGit.pc = "showNoFolderOpen"
    /\ localGit' = [localGit EXCEPT !.pc = "resolved", !.input = Dismissed,
                                    !.returned = "undefined"]
    /\ UNCHANGED <<notGitVars, gitErrors, isSlot, rootPath, shown, opened, gitCalls, armCalls>>

\* A mutant of Catch: the two tests are made in the other order.
CatchPushFailedFirst(call, e) ==
    IF IndexOf(e.message, PushFailed) >= 0
    THEN /\ localGit' = [call EXCEPT !.pc = "showPushRejected", !.err = e]
         /\ shown' = Append(shown, ErrorMessage(PushRejected, <<Yes>>))
    ELSE IF IndexOf(e.message, GitNotInstalled) >= 0
    THEN /\ localGit' = [call EXCEPT !.pc = "showGitRequired", !.err = e]
         /\ shown' = Append(shown, ErrorMessage(GitRequired, <<Install>>))
    ELSE /\ localGit' = [call EXCEPT !.pc = "rejected", !.err = e, !.thrown = e]
         /\ UNCHANGED shown

\* A mutant of Catch: an error it does not recognise is reported in a message.
CatchShowsUnknown(call, e) ==
    IF IndexOf(e.message, GitNotInstalled) >= 0
    THEN /\ localGit' = [call EXCEPT !.pc = "showGitRequired", !.err = e]
         /\ shown' = Append(shown, ErrorMessage(GitRequired, <<Install>>))
    ELSE IF IndexOf(e.message, PushFailed) >= 0
    THEN /\ localGit' = [call EXCEPT !.pc = "showPushRejected", !.err = e]
         /\ shown' = Append(shown, ErrorMessage(PushRejected, <<Yes>>))
    ELSE /\ localGit' = [call EXCEPT !.pc = "rejected", !.err = e, !.thrown = e]
         /\ shown' = Append(shown, ErrorMessage(e.message, <<>>))

\* catch (err), lines 164-180, up to its first await or throw: git.init() or
\* git.push() has rejected with e.
Catch(call, e) ==
    IF IndexOf(e.message, GitNotInstalled) >= 0
    THEN /\ localGit' = [call EXCEPT !.pc = "showGitRequired", !.err = e]
         /\ shown' = Append(shown, ErrorMessage(GitRequired, <<Install>>))
    ELSE IF IndexOf(e.message, PushFailed) >= 0
    THEN /\ localGit' = [call EXCEPT !.pc = "showPushRejected", !.err = e]
         /\ shown' = Append(shown, ErrorMessage(PushRejected, <<Yes>>))
    ELSE /\ localGit' = [call EXCEPT !.pc = "rejected", !.err = e, !.thrown = e]
         /\ UNCHANGED shown

\* git.init() settles (line 161); git.push(remote, 'master') is called (line 162).
GitInitSettle ==
    /\ localGit.pc = "git.init"
    /\ \/ /\ localGit' = [localGit EXCEPT !.pc = "git.push"]
          /\ gitCalls' = Append(gitCalls, "push")
          /\ UNCHANGED <<shown, gitErrors>>
       \/ \E message \in GitMessages :
            /\ Catch(localGit, GitError("git.init", message))
            /\ gitErrors' = Append(gitErrors, GitError("git.init", message))
            /\ UNCHANGED gitCalls
    /\ UNCHANGED <<notGitVars, isSlot, rootPath, opened, armCalls>>

\* git.push(remote, 'master') settles (line 162); when it succeeds,
\* listDeployments is called again (lines 183-185).
GitPushSettle ==
    /\ localGit.pc = "git.push"
    /\ \/ /\ localGit' = [localGit EXCEPT !.pc = "listDeployments again"]
          /\ armCalls' = Append(armCalls, WebApps("listDeployments"))
          /\ UNCHANGED <<shown, gitErrors>>
       \/ \E message \in GitMessages :
            /\ Catch(localGit, GitError("git.push", message))
            /\ gitErrors' = Append(gitErrors, GitError("git.push", message))
            /\ UNCHANGED armCalls
    /\ UNCHANGED <<notGitVars, isSlot, rootPath, opened, gitCalls>>

\* The 'Git must be installed' message is answered (lines 167-170).
GitRequiredAnswered ==
    /\ localGit.pc = "showGitRequired"
    /\ \E input \in Answers(<<Install>>) :
         /\ opened' = IF input = Install THEN Append(opened, GitDownloads) ELSE opened
         /\ localGit' = [localGit EXCEPT !.pc = "rejected", !.input = input,
                                         !.thrown = localGit.err]
    /\ UNCHANGED <<notGitVars, gitErrors, isSlot, rootPath, shown, gitCalls, armCalls>>

\* The 'Force push?' message is answered (lines 173-177).
PushRejectedAnswered ==
    /\ localGit.pc = "showPushRejected"
    /\ \E input \in Answers(<<Yes>>) :
         IF input = Yes
         THEN /\ localGit' = [localGit EXCEPT !.pc = "git.push -f", !.input = input]
              /\ gitCalls' = Append(gitCalls, "push -f")
         ELSE /\ localGit' = [localGit EXCEPT !.pc = "rejected", !.input = input,
                                              !.thrown = localGit.err]
              /\ UNCHANGED gitCalls
    /\ UNCHANGED <<notGitVars, gitErrors, isSlot, rootPath, shown, opened, armCalls>>

\* git.push(['-f', remote, 'master']) settles (line 174): it is awaited in the
\* catch block, so its error leaves the function; when it succeeds,
\* listDeployments is called again (lines 183-185).
ForcePushSettle ==
    /\ localGit.pc = "git.push -f"
    /\ \/ /\ localGit' = [localGit EXCEPT !.pc = "listDeployments again"]
          /\ armCalls' = Append(armCalls, WebApps("listDeployments"))
          /\ UNCHANGED gitErrors
       \/ \E message \in GitMessages :
            /\ localGit' = [localGit EXCEPT !.pc = "rejected",
                                            !.thrown = GitError("git.push -f", message)]
            /\ gitErrors' = Append(gitErrors, GitError("git.push -f", message))
            /\ UNCHANGED armCalls
    /\ UNCHANGED <<notGitVars, isSlot, rootPath, shown, opened, gitCalls>>

\* Lines 187-191: newDeployment[0].deploymentId === oldDeployment[0].deploymentId.
\* The first element of an empty list is undefined, and reading its
\* deploymentId throws a TypeError.
CompareDeployments(call) ==
    IF call.newDeployment = <<>> \/ call.oldDeployment = <<>>
    THEN /\ localGit' = [call EXCEPT !.pc = "rejected", !.thrown = TypeError]
         /\ UNCHANGED shown
    ELSE IF call.newDeployment[1].deploymentId = call.oldDeployment[1].deploymentId
    THEN /\ localGit' = [call EXCEPT !.pc = "showRepoIsCurrent"]
         /\ shown' = Append(shown, WarningMessage(RepoIsCurrent))
    ELSE /\ localGit' = [call EXCEPT !.pc = "resolved", !.returned = "true"]
         /\ UNCHANGED shown

\* The second listDeployments settles: newDeployment (lines 183-185), then
\* the comparison.
NewDeploymentSettle ==
    /\ localGit.pc = "listDeployments again"
    /\ \/ \E history \in Histories :
            CompareDeployments([localGit EXCEPT !.newDeployment = history])
       \/ /\ localGit' = [localGit EXCEPT !.pc = "rejected", !.thrown = ArmError]
          /\ UNCHANGED shown
    /\ UNCHANGED <<notGitVars, gitErrors, isSlot, rootPath, opened, gitCalls, armCalls>>

\* The 'repo is current' warning is answered (lines 188-189).
RepoIsCurrentAnswered ==
    /\ localGit.pc = "showRepoIsCurrent"
    /\ localGit' = [localGit EXCEPT !.pc = "rejected", !.thrown = NewError(RepoIsCurrent)]
    /\ UNCHANGED <<notGitVars, gitErrors, isSlot, rootPath, shown, opened, gitCalls, armCalls>>

NextGit ==
    \/ LocalGitDeploy
    \/ CredentialsSettle
    \/ ConfigurationSettle
    \/ OldDeploymentSettle
    \/ NotSetUpAnswered
    \/ NoFolderOpenAnswered
    \/ GitInitSettle
    \/ GitPushSettle
    \/ GitRequiredAnswered
    \/ PushRejectedAnswered
    \/ ForcePushSettle
    \/ NewDeploymentSettle
    \/ RepoIsCurrentAnswered

\* ======================= SiteNodeBase.connectToLogStream / stopLogStream

\* this._logStream when it holds no stream.
NoStream == 0

AllListeners == {"data", "error", "complete"}

Connecting == "Connecting to log-streaming service..."

Disconnected == "Disconnected from log-streaming service."

ErrorConnecting == "Error connecting to log-streaming service:"

\* A line (or chunk) given to the output channel: by is the code that gave
\* it, stream the stream it was about (NoStream for none).
Line(text, by, stream) == [text |-> text, by |-> by, stream |-> stream]

\* The node's fields and its streams.
Node(logStream, allStreams, channelOutput) ==
    [logStream |-> logStream, streams |-> allStreams, output |-> channelOutput]

\* A mutant of StopLogStreamOn: the listeners are left on the stream.
StopLogStreamKeepsListeners(node) ==
    IF node.logStream # NoStream
    THEN Node(NoStream,
              [node.streams EXCEPT ![node.logStream].destroyed = TRUE],
              Append(node.output, Line(Disconnected, "stopLogStream", node.logStream)))
    ELSE node

\* A mutant of StopLogStreamOn: the stream is forgotten, and left as it is.
StopLogStreamOnlyForgets(node) ==
    IF node.logStream # NoStream
    THEN Node(NoStream, node.streams,
              Append(node.output, Line(Disconnected, "stopLogStream", node.logStream)))
    ELSE node

\* stopLogStream(), lines 118-128.  The output channel exists whenever a
\* stream does: connectToLogStream creates it first.
StopLogStreamOn(node) ==
    IF node.logStream # NoStream
    THEN Node(NoStream,
              [node.streams EXCEPT ![node.logStream].listeners = {},
                                   ![node.logStream].destroyed = TRUE],
              IF _logStreamOutputChannel
              THEN Append(node.output, Line(Disconnected, "stopLogStream", node.logStream))
              ELSE node.output)
    ELSE node

\* async connectToLogStream(extensionContext): up to the await of line 94.
ConnectToLogStream ==
    /\ Len(connects) < MaxConnects
    /\ connects' = Append(connects, "getWebAppPublishCredential")
    /\ lastCall' = "connectToLogStream"
    /\ UNCHANGED <<notLogVars, _logStream, _logStreamOutputChannel, output, streams,
                   events, telemetry>>

\* getWebAppPublishCredential settles for call c; lines 95-115 run: the
\* channel is created, the current stream is stopped, a new one is opened
\* with its three listeners.
PublishCredentialSettle(c) ==
    /\ connects[c] = "getWebAppPublishCredential"
    /\ \/ /\ connects' = [connects EXCEPT ![c] = "resolved"]
          /\ _logStreamOutputChannel' = TRUE
          /\ LET stopped ==
                     StopLogStreamOn(Node(_logStream, streams,
                         Append(output, Line(Connecting, "connectToLogStream", NoStream))))
                 new == Len(streams) + 1
             IN /\ streams' = Append(stopped.streams,
                                     [listeners |-> AllListeners, destroyed |-> FALSE,
                                      completed |-> FALSE, call |-> c])
                /\ _logStream' = new
                /\ output' = stopped.output
       \/ /\ connects' = [connects EXCEPT ![c] = "rejected"]
          /\ UNCHANGED <<_logStream, _logStreamOutputChannel, output, streams>>
    /\ UNCHANGED <<notLogVars, events, telemetry, lastCall>>

\* stopLogStream(), called on the node.
StopLogStream ==
    /\ LET stopped == StopLogStreamOn(Node(_logStream, streams, output))
       IN /\ _logStream' = stopped.logStream
          /\ streams' = stopped.streams
          /\ output' = stopped.output
    /\ lastCall' = "stopLogStream"
    /\ UNCHANGED <<notLogVars, _logStreamOutputChannel, connects, events, telemetry>>

\* An emitted event, with how much the channel held when it was emitted.
Event(s, name) == [stream |-> s, name |-> name, at |-> Len(output)]

\* The stream s emits 'data': the listener of lines 107-108, when it is on.
StreamData(s) ==
    /\ Len(events) < MaxEvents
    /\ ~streams[s].completed
    /\ events' = Append(events, Event(s, "data"))
    /\ output' = IF "data" \in streams[s].listeners
                 THEN Append(output, Line("chunk", "data", s))
                 ELSE output
    /\ UNCHANGED <<notLogVars, _logStream, _logStreamOutputChannel, streams, connects,
                   telemetry, lastCall>>

\* The stream s emits 'error': the listener of lines 109-112, when it is on.
StreamError(s) ==
    /\ Len(events) < MaxEvents
    /\ events' = Append(events, Event(s, "error"))
    /\ IF "error" \in streams[s].listeners
       THEN /\ telemetry' = Append(telemetry, "ConnectToLogStreamError")
            /\ output' = output \o <<Line(ErrorConnecting, "error", s),
                                     Line("err.message", "error", s)>>
       ELSE UNCHANGED <<telemetry, output>>
    /\ UNCHANGED <<notLogVars, _logStream, _logStreamOutputChannel, streams, connects,
                   lastCall>>

\* The stream s emits 'complete', once: the listener of lines 113-114, when it is on.
StreamComplete(s) ==
    /\ Len(events) < MaxEvents
    /\ ~streams[s].completed
    /\ events' = Append(events, Event(s, "complete"))
    /\ streams' = [streams EXCEPT ![s].completed = TRUE]
    /\ output' = IF "complete" \in streams[s].listeners
                 THEN Append(output, Line(Disconnected, "complete", s))
                 ELSE output
    /\ UNCHANGED <<notLogVars, _logStream, _logStreamOutputChannel, connects, telemetry,
                   lastCall>>

NextLog ==
    \/ ConnectToLogStream
    \/ \E c \in 1..Len(connects) : PublishCredentialSettle(c)
    \/ StopLogStream
    \/ \E s \in 1..Len(streams) : StreamData(s)
    \/ \E s \in 1..Len(streams) : StreamError(s)
    \/ \E s \in 1..Len(streams) : StreamComplete(s)

\* ================================================================ deploy()

\* The fullId of a web app's tree item.
Nodes == 1..MaxNodes

\* No web app: node before the selection, getDefaultWebAppToDeploy's undefined.
NoNode == 0

\* siteConfig.scmType (constants.ScmType) and siteConfig.linuxFxVersion.
ScmNone == "None"

GitHub == "GitHub"

LinuxFxVersions == {"", "node", "python", "dotnetcore"}

SiteConfigs == [scmType : ScmTypes, linuxFxVersion : LinuxFxVersions]

\* The buttons of the two dialogs.
DeployButton == "Deploy"

ResetDefault == "Reset default"

Cancel == "Cancel"

ViewOutput == "View Output"

BrowseWebsite == "Browse Website"

StreamLogs == "Stream Logs"

\* The errors of the call.
NoThrow == [name |-> "", from |-> ""]

NotInWorkspace == [name |-> "Error", from |-> "deploy: the path is not part of an open workspace"]

UserCancelled(of) == [name |-> "UserCancelledError", from |-> of]

Failure(of) == [name |-> "Error", from |-> of]

\* The locals of a deploy() call that has not started; passed is the
\* confirmDeployment it was called with.
NewDeploy(confirmDeployment) ==
    [pc |-> "idle", node |-> NoNode, newNodes |-> <<>>,
     confirmDeployment |-> confirmDeployment, passed |-> confirmDeployment,
     siteConfig |-> [scmType |-> "unread", linuxFxVersion |-> ""],
     items |-> <<>>, result |-> "undefined", thrown |-> NoThrow]

\* The call moves on: its locals, and the calls it has made and seen return.
Continue(call, did) ==
    /\ deployCall' = call
    /\ steps' = steps \o did

Throw(call, did, error) ==
    Continue([call EXCEPT !.pc = "rejected", !.thrown = error], did)

\* deploy(context, confirmDeployment, target): up to the await of line 105.
Deploy ==
    /\ deployCall.pc = "idle"
    /\ context' = [context EXCEPT !.telemetry.deployedWithConfigs = "false"]
    /\ Continue([deployCall EXCEPT !.pc = "getDeployFsPath"], <<"getDeployFsPath">>)
    /\ UNCHANGED <<notDeployVars, showBuildDuringDeployPrompt, defaultWebAppToDeploy,
                   listening, created, savePrompt, notification, validation>>

\* getDeployFsPath settles; lines 107-121: the workspace of the path, the
\* onTreeItemCreate listener, the call of getDefaultWebAppToDeploy.
DeployFsPathSettle ==
    /\ deployCall.pc = "getDeployFsPath"
    /\ \/ /\ Throw(deployCall, <<>>, Failure("getDeployFsPath"))
          /\ UNCHANGED listening
       \/ \E currentWorkspace \in BOOLEAN :
            IF ~currentWorkspace
            THEN /\ Throw(deployCall, <<>>, NotInWorkspace)
                 /\ UNCHANGED listening
            ELSE /\ listening' = TRUE
                 /\ Continue([deployCall EXCEPT !.pc = "getDefaultWebAppToDeploy"],
                             <<"onTreeItemCreate", "getDefaultWebAppToDeploy">>)
    /\ UNCHANGED <<notDeployVars, context, showBuildDuringDeployPrompt,
                   defaultWebAppToDeploy, created, savePrompt, notification, validation>>

\* ext.tree fires onTreeItemCreate for a new tree item: the listener of lines
\* 115-118, while it is subscribed, adds it to newNodes.
TreeItemCreate(n) ==
    /\ Len(created) < MaxCreated
    /\ deployCall.pc \notin {"resolved", "rejected"}
    /\ created' = Append(created, [fullId |-> n, listened |-> listening])
    /\ deployCall' = IF listening
                     THEN [deployCall EXCEPT !.newNodes = Append(@, n)]
                     ELSE deployCall
    /\ UNCHANGED <<notDeployVars, context, showBuildDuringDeployPrompt,
                   defaultWebAppToDeploy, listening, steps, savePrompt, notification,
                   validation>>

\* A mutant of Selected: the confirmation is never stifled.
SelectedKeepsConfirmation(call, n, did) ==
    /\ listening' = FALSE
    /\ Continue([call EXCEPT !.pc = "getSiteConfig", !.node = n],
                did \o <<"dispose", "getSiteConfig">>)

\* Lines 128-152, with node selected: the listener is disposed of, the
\* confirmation is stifled for a node of newNodes, getSiteConfig is called.
Selected(call, n, did) ==
    /\ listening' = FALSE
    /\ Continue([call EXCEPT !.pc = "getSiteConfig", !.node = n,
                             !.confirmDeployment =
                                 IF \E p \in 1..Len(call.newNodes) : call.newNodes[p] = n
                                 THEN FALSE ELSE @],
                did \o <<"dispose", "getSiteConfig">>)

\* getDefaultWebAppToDeploy settles (line 121): with a web app, with undefined
\* (showTreeItemPicker is called), or with an error (lines 122-129).  It is
\* handed context, and may have set context.deployedWithConfigs.
DefaultWebAppSettle ==
    /\ deployCall.pc = "getDefaultWebAppToDeploy"
    /\ \E deployedWithConfigs \in BOOLEAN :
         context' = [context EXCEPT !.deployedWithConfigs = deployedWithConfigs]
    /\ \/ \E n \in Nodes : Selected(deployCall, n, <<>>)
       \/ /\ Continue([deployCall EXCEPT !.pc = "showTreeItemPicker"], <<"showTreeItemPicker">>)
          /\ UNCHANGED listening
       \/ /\ listening' = FALSE
          /\ Throw(deployCall, <<"dispose">>, Failure("getDefaultWebAppToDeploy"))
    /\ UNCHANGED <<notDeployVars, showBuildDuringDeployPrompt, defaultWebAppToDeploy,
                   created, savePrompt, notification, validation>>

\* showTreeItemPicker settles (line 121): with the web app picked, or with an
\* error, the user's cancelling among them (lines 122-129).
TreeItemPickerSettle ==
    /\ deployCall.pc = "showTreeItemPicker"
    /\ \/ \E n \in Nodes :
            /\ Selected(deployCall, n, <<>>)
            /\ UNCHANGED context
       \/ \E error \in {UserCancelled("showTreeItemPicker"), Failure("showTreeItemPicker")} :
            /\ listening' = FALSE
            /\ context' = IF error.name = "UserCancelledError"
                          THEN [context EXCEPT !.telemetry.cancelStep = "showTreeItemPicker"]
                          ELSE context
            /\ Throw(deployCall, <<"dispose">>, error)
    /\ UNCHANGED <<notDeployVars, showBuildDuringDeployPrompt, defaultWebAppToDeploy,
                   created, savePrompt, notification, validation>>

\* A mutant of Completed: the 'completed' notification is awaited.
CompletedAwaitsNotification(call, did) ==
    /\ Continue([call EXCEPT !.pc = "showInformationMessage"],
                did \o <<"appendLine", "showInformationMessage">>)
    /\ notification' = "pending"
    /\ UNCHANGED validation

\* Lines 218-242, appservice.deploy having succeeded: the message in the
\* output channel, then the notification and validateWebSite, neither awaited;
\* the function returns.
Completed(call, did) ==
    /\ Continue([call EXCEPT !.pc = "resolved"],
                did \o <<"appendLine", "showInformationMessage", "validateWebSite">>)
    /\ notification' = "pending"
    /\ validation' = "pending"

\* Lines 203-211, the deployment being confirmed or needing no confirmation:
\* promptToSaveDeployDefaults is called and not awaited when the workspace
\* deployed is the current one or under it, then the pre-deploy task is set up
\* and run.
Confirmed(call, did) ==
    /\ \E isPathEqualOrSubpath \in BOOLEAN :
         savePrompt' = IF ~context.deployedWithConfigs /\ isPathEqualOrSubpath
                       THEN "pending" ELSE savePrompt
    /\ IF call.siteConfig.linuxFxVersion = "dotnetcore"
       THEN Continue([call EXCEPT !.pc = "setPreDeployTaskForDotnet"],
                     did \o <<"setPreDeployTaskForDotnet">>)
       ELSE Continue([call EXCEPT !.pc = "runPreDeployTask"], did \o <<"runPreDeployTask">>)

\* Lines 170-182: whether the deployment is to be confirmed.  siteConfig is
\* an object and constants.ScmType.GitHub a string, so the third test of line
\* 170 (siteConfig !== GitHub) is true whatever the scmType.
Confirm(call, did) ==
    IF call.confirmDeployment /\ call.siteConfig.scmType # LocalGit /\ TRUE
    THEN /\ Continue([call EXCEPT !.pc = "delay",
                          !.items = <<DeployButton>>
                                      \o (IF context.deployedWithConfigs
                                          THEN <<ResetDefault>> ELSE <<>>)
                                      \o <<Cancel>>],
                     did \o <<"delay">>)
         /\ UNCHANGED savePrompt
    ELSE Confirmed(call, did)

\* getSiteConfig settles (line 152); lines 156-158: the build prompt's tests.
SiteConfigSettle ==
    /\ deployCall.pc = "getSiteConfig"
    /\ \/ /\ Throw(deployCall, <<>>, Failure("getSiteConfig"))
          /\ UNCHANGED savePrompt
       \/ \E siteConfig \in SiteConfigs :
            LET call == [deployCall EXCEPT !.siteConfig = siteConfig] IN
            IF /\ showBuildDuringDeployPrompt
               /\ siteConfig.linuxFxVersion # ""
               /\ siteConfig.scmType = ScmNone
            THEN /\ Continue([call EXCEPT !.pc = "pathExists"], <<"pathExists">>)
                 /\ UNCHANGED savePrompt
            ELSE Confirm(call, <<>>)
    /\ context' = [context EXCEPT
                      !.telemetry.cancelStep =
                          IF deployCall'.pc = "delay" THEN "confirmDestructiveDeployment" ELSE @]
    /\ UNCHANGED <<notDeployVars, showBuildDuringDeployPrompt, defaultWebAppToDeploy,
                   listening, created, notification, validation>>

\* pathExists settles (line 158); lines 159-165: the build prompt, for node and python.
PathExistsSettle ==
    /\ deployCall.pc = "pathExists"
    /\ \E exists \in BOOLEAN :
         IF ~exists /\ deployCall.siteConfig.linuxFxVersion \in {"node", "python"}
         THEN /\ Continue([deployCall EXCEPT !.pc = "promptScmDoBuildDeploy"],
                          <<"promptScmDoBuildDeploy">>)
              /\ UNCHANGED savePrompt
         ELSE Confirm(deployCall, <<>>)
    /\ context' = [context EXCEPT
                      !.telemetry.cancelStep =
                          IF deployCall'.pc = "delay" THEN "confirmDestructiveDeployment" ELSE @]
    /\ UNCHANGED <<notDeployVars, showBuildDuringDeployPrompt, defaultWebAppToDeploy,
                   listening, created, notification, validation>>

\* node.promptScmDoBuildDeploy settles (lines 162-164).
PromptScmDoBuildDeploySettle ==
    /\ deployCall.pc = "promptScmDoBuildDeploy"
    /\ \/ Confirm(deployCall, <<>>)
       \/ /\ Throw(deployCall, <<>>, Failure("promptScmDoBuildDeploy"))
          /\ UNCHANGED savePrompt
    /\ context' = [context EXCEPT
                      !.telemetry.cancelStep =
                          IF deployCall'.pc = "delay" THEN "confirmDestructiveDeployment" ELSE @]
    /\ UNCHANGED <<notDeployVars, showBuildDuringDeployPrompt, defaultWebAppToDeploy,
                   listening, created, notification, validation>>

\* delay(500) settles (line 182): the modal warning is shown (line 183).
DelaySettle ==
    /\ deployCall.pc = "delay"
    /\ Continue([deployCall EXCEPT !.pc = "showWarningMessage"], <<"showWarningMessage">>)
    /\ UNCHANGED <<notDeployVars, context, showBuildDuringDeployPrompt,
                   defaultWebAppToDeploy, listening, created, savePrompt, notification,
                   validation>>

\* A mutant of WarningAnswered: whatever the answer, the deployment goes on.
WarningAnsweredAlwaysDeploys ==
    /\ deployCall.pc = "showWarningMessage"
    /\ \E result \in {deployCall.items[p] : p \in 1..Len(deployCall.items)} :
         Confirmed([deployCall EXCEPT !.result = result], <<>>)
    /\ UNCHANGED <<notDeployVars, context, showBuildDuringDeployPrompt,
                   defaultWebAppToDeploy, listening, created, notification, validation>>

\* ext.ui.showWarningMessage settles (lines 183-201): with the button picked;
\* it throws a UserCancelledError for 'Cancel' and for a dismissed dialog.
WarningAnswered ==
    /\ deployCall.pc = "showWarningMessage"
    /\ \E result \in {deployCall.items[p] : p \in 1..Len(deployCall.items)} :
         LET call == [deployCall EXCEPT !.result = result] IN
         IF result = Cancel
         THEN /\ Throw(deployCall, <<>>, UserCancelled("showWarningMessage"))
              /\ UNCHANGED <<savePrompt, context>>
         ELSE IF result = ResetDefault
         THEN /\ IF context.configurationTarget = "Global"
                 THEN Continue([call EXCEPT !.pc = "openGlobalSettings"],
                               <<"workbench.action.openGlobalSettings">>)
                 ELSE Continue([call EXCEPT !.pc = "openTextDocument"], <<"openTextDocument">>)
              /\ UNCHANGED <<savePrompt, context>>
         ELSE /\ context' = [context EXCEPT !.telemetry.cancelStep = ""]
              /\ Confirmed(call, <<>>)
    /\ UNCHANGED <<notDeployVars, showBuildDuringDeployPrompt, defaultWebAppToDeploy,
                   listening, created, notification, validation>>

\* The settings are opened (lines 186-191); updateWorkspaceSetting is called (line 194).
SettingsOpened ==
    /\ deployCall.pc \in {"openGlobalSettings", "openTextDocument"}
    /\ \/ Continue([deployCall EXCEPT !.pc = "updateWorkspaceSetting"],
                   (IF deployCall.pc = "openTextDocument"
                    THEN <<"showTextDocument">> ELSE <<>>) \o <<"updateWorkspaceSetting">>)
       \/ Throw(deployCall, <<>>, Failure(deployCall.pc))
    /\ UNCHANGED <<notDeployVars, context, showBuildDuringDeployPrompt,
                   defaultWebAppToDeploy, listening, created, savePrompt, notification,
                   validation>>

\* A mutant of WorkspaceSettingUpdated: the setting is left as it is.
WorkspaceSettingKept ==
    /\ deployCall.pc = "updateWorkspaceSetting"
    /\ Continue([deployCall EXCEPT !.pc = "appService.Deploy"], <<"appService.Deploy">>)
    /\ UNCHANGED <<notDeployVars, context, showBuildDuringDeployPrompt, listening,
                   defaultWebAppToDeploy, created, savePrompt, notification, validation>>

\* updateWorkspaceSetting settles (line 194); 'appService.Deploy' is executed (line 197).
WorkspaceSettingUpdated ==
    /\ deployCall.pc = "updateWorkspaceSetting"
    /\ \/ /\ defaultWebAppToDeploy' = ""
          /\ Continue([deployCall EXCEPT !.pc = "appService.Deploy"], <<"appService.Deploy">>)
       \/ /\ Throw(deployCall, <<>>, Failure("updateWorkspaceSetting"))
          /\ UNCHANGED defaultWebAppToDeploy
    /\ UNCHANGED <<notDeployVars, context, showBuildDuringDeployPrompt, listening,
                   created, savePrompt, notification, validation>>

\* The command 'appService.Deploy' settles (lines 197-198): return.
DeployCommandSettle ==
    /\ deployCall.pc = "appService.Deploy"
    /\ \/ Continue([deployCall EXCEPT !.pc = "resolved"], <<>>)
       \/ Throw(deployCall, <<>>, Failure("appService.Deploy"))
    /\ UNCHANGED <<notDeployVars, context, showBuildDuringDeployPrompt,
                   defaultWebAppToDeploy, listening, created, savePrompt, notification,
                   validation>>

\* setPreDeployTaskForDotnet settles (line 208); runPreDeployTask is called (line 211).
PreDeployTaskForDotnetSettle ==
    /\ deployCall.pc = "setPreDeployTaskForDotnet"
    /\ \/ Continue([deployCall EXCEPT !.pc = "runPreDeployTask"], <<"runPreDeployTask">>)
       \/ Throw(deployCall, <<>>, Failure("setPreDeployTaskForDotnet"))
    /\ UNCHANGED <<notDeployVars, context, showBuildDuringDeployPrompt,
                   defaultWebAppToDeploy, listening, created, savePrompt, notification,
                   validation>>

\* A mutant of PreDeployTaskSettle: appservice.deploy is called before
\* cancelWebsiteValidation, and also when the pre-deploy task failed.
PreDeployTaskSettleDeploysFirst ==
    /\ deployCall.pc = "runPreDeployTask"
    /\ \/ Continue([deployCall EXCEPT !.pc = "appservice.deploy"],
                   <<"runPreDeployTask done", "appservice.deploy", "cancelWebsiteValidation">>)
       \/ Continue([deployCall EXCEPT !.pc = "appservice.deploy",
                                      !.thrown = Failure("runPreDeployTask")],
                   <<"appservice.deploy", "cancelWebsiteValidation">>)
    /\ UNCHANGED <<notDeployVars, context, showBuildDuringDeployPrompt,
                   defaultWebAppToDeploy, listening, created, savePrompt, notification,
                   validation>>

\* runPreDeployTask settles (line 211); lines 213-216: cancelWebsiteValidation,
\* then appservice.deploy under runWithTemporaryDescription.
PreDeployTaskSettle ==
    /\ deployCall.pc = "runPreDeployTask"
    /\ \/ Continue([deployCall EXCEPT !.pc = "appservice.deploy"],
                   <<"runPreDeployTask done", "cancelWebsiteValidation", "appservice.deploy">>)
       \/ Throw(deployCall, <<>>, Failure("runPreDeployTask"))
    /\ UNCHANGED <<notDeployVars, context, showBuildDuringDeployPrompt,
                   defaultWebAppToDeploy, listening, created, savePrompt, notification,
                   validation>>

\* appservice.deploy, and runWithTemporaryDescription with it, settles (lines
\* 214-216); when it succeeded, lines 218-242.
AppServiceDeploySettle ==
    /\ deployCall.pc = "appservice.deploy"
    /\ \/ Completed(deployCall, <<"appservice.deploy done">>)
       \/ /\ Throw(deployCall, <<>>, Failure("appservice.deploy"))
          /\ UNCHANGED <<notification, validation>>
    /\ UNCHANGED <<notDeployVars, context, showBuildDuringDeployPrompt,
                   defaultWebAppToDeploy, listening, created, savePrompt>>

\* The 'completed' notification is answered: the handler of lines 224-232.
NotificationAnswered ==
    /\ notification = "pending"
    /\ \E result \in {ViewOutput, BrowseWebsite, StreamLogs, Dismissed} :
         /\ notification' = result
         /\ steps' = steps \o (IF result = ViewOutput THEN <<"outputChannel.show">>
                               ELSE IF result = BrowseWebsite THEN <<"browse">>
                               ELSE IF result = StreamLogs THEN <<"startStreamingLogs">>
                               ELSE <<>>)
    /\ UNCHANGED <<notDeployVars, deployCall, context, showBuildDuringDeployPrompt,
                   defaultWebAppToDeploy, listening, created, savePrompt, validation>>

\* validateWebSite settles: both handlers of lines 235-241 ignore it.
ValidationSettle ==
    /\ validation = "pending"
    /\ validation' \in {"resolved", "rejected"}
    /\ UNCHANGED <<notDeployVars, deployCall, context, showBuildDuringDeployPrompt,
                   defaultWebAppToDeploy, listening, created, steps, savePrompt,
                   notification>>

\* node.promptToSaveDeployDefaults settles: nothing awaits it (line 205).
SavePromptSettle ==
    /\ savePrompt = "pending"
    /\ savePrompt' \in {"resolved", "rejected"}
    /\ UNCHANGED <<notDeployVars, deployCall, context, showBuildDuringDeployPrompt,
                   defaultWebAppToDeploy, listening, created, steps, notification,
                   validation>>

NextDeploy ==
    \/ Deploy
    \/ DeployFsPathSettle
    \/ \E n \in Nodes : TreeItemCreate(n)
    \/ DefaultWebAppSettle
    \/ TreeItemPickerSettle
    \/ SiteConfigSettle
    \/ PathExistsSettle
    \/ PromptScmDoBuildDeploySettle
    \/ DelaySettle
    \/ WarningAnswered
    \/ SettingsOpened
    \/ WorkspaceSettingUpdated
    \/ DeployCommandSettle
    \/ PreDeployTaskForDotnetSettle
    \/ PreDeployTaskSettle
    \/ AppServiceDeploySettle
    \/ NotificationAnswered
    \/ ValidationSettle
    \/ SavePromptSettle

\* ================================================================ browse()

\* Host names of a site; its sslState values ('Enabled' is the one browse()
\* looks for).
HostNames == {"site.azurewebsites.net", "www.site.com"}

Enabled == "Enabled"

SslStates == {Enabled, "Disabled"}

HostNameSslStates == SeqsUpTo([name : HostNames, sslState : SslStates], MaxSslStates)

Sites == [defaultHostName : HostNames, hostNameSslStates : HostNameSslStates]

\* Array.prototype.findIndex: the index (from 0) of the first element that
\* satisfies the test of lines 80-81, or -1.
FindIndex(hostNameSslStates, defaultHostName) ==
    LET found == {p \in 1..Len(hostNameSslStates) :
                     /\ hostNameSslStates[p].name = defaultHostName
                     /\ hostNameSslStates[p].sslState = Enabled}
    IN IF found = {} THEN -1 ELSE Min(found) - 1

\* A number as the condition of ?: : 0 is false, every other number is true.
Truthy(number) == number # 0

\* Lines 79-82: the uri browse() builds.
Uri(of) ==
    LET isSsl == FindIndex(of.hostNameSslStates, of.defaultHostName)
    IN <<IF Truthy(isSsl) THEN "https://" ELSE "http://", of.defaultHostName>>

\* browse(), lines 78-84.
Browse ==
    /\ Len(browsed) < MaxBrowses
    /\ browsed' = Append(browsed, Uri(site))
    /\ UNCHANGED <<notBrowseVars, site>>

NextBrowse == Browse

\* ========================================================= specifications

\* browse() is not called.
BrowseIdle ==
    /\ site = [defaultHostName |-> "site.azurewebsites.net", hostNameSslStates |-> <<>>]
    /\ browsed = <<>>

\* No CosmosDBDatabase is being constructed.
LabelIdle ==
    /\ connectionId = <<>>
    /\ label = NoLabel
    /\ ctor = "idle"
    /\ ctorError = ""

\* No error.
NoError == [from |-> "none", message |-> <<>>]

\* A deployment list that has not been read.
NotListed == <<[deploymentId |-> 0]>>

\* The locals of a localGitDeploy call that has not started.
NewCall ==
    [pc |-> "idle", config |-> "unread", oldDeployment |-> NotListed,
     newDeployment |-> NotListed, err |-> NoError, input |-> "undefined",
     returned |-> "nothing", thrown |-> NoError]

\* No localGitDeploy call is made.
GitIdle ==
    /\ isSlot = FALSE
    /\ rootPath = FALSE
    /\ localGit = NewCall
    /\ shown = <<>>
    /\ opened = <<>>
    /\ gitCalls = <<>>
    /\ gitErrors = <<>>
    /\ armCalls = <<>>

\* A node with no log stream, no output channel and no call under way.
LogIdle ==
    /\ _logStream = NoStream
    /\ _logStreamOutputChannel = FALSE
    /\ output = <<>>
    /\ streams = <<>>
    /\ connects = <<>>
    /\ events = <<>>
    /\ telemetry = <<>>
    /\ lastCall = "none"

\* No deploy() call is made.
DeployIdle ==
    /\ deployCall = NewDeploy(FALSE)
    /\ context = [deployedWithConfigs |-> FALSE, configurationTarget |-> "Workspace",
                  telemetry |-> [deployedWithConfigs |-> "", cancelStep |-> ""]]
    /\ showBuildDuringDeployPrompt = FALSE
    /\ defaultWebAppToDeploy = ""
    /\ listening = FALSE
    /\ created = <<>>
    /\ steps = <<>>
    /\ savePrompt = "none"
    /\ notification = "none"
    /\ validation = "none"

InitLabel ==
    /\ connectionId \in ConnectionIds
    /\ label = NoLabel
    /\ ctor = "new"
    /\ ctorError = ""
    /\ GitIdle
    /\ LogIdle
    /\ DeployIdle
    /\ BrowseIdle

NextLabel == Construct

SpecLabel == InitLabel /\ [][NextLabel]_vars

\* One call of localGitDeploy, on any site and workspace.
InitGit ==
    /\ isSlot \in BOOLEAN
    /\ rootPath \in BOOLEAN
    /\ localGit = NewCall
    /\ shown = <<>>
    /\ opened = <<>>
    /\ gitCalls = <<>>
    /\ gitErrors = <<>>
    /\ armCalls = <<>>
    /\ LabelIdle
    /\ LogIdle
    /\ DeployIdle
    /\ BrowseIdle

SpecGit == InitGit /\ [][NextGit]_vars

\* A new SiteNodeBase: connectToLogStream and stopLogStream are called on it
\* in any order, and its streams emit their events at any time.
InitLog ==
    /\ LogIdle
    /\ LabelIdle
    /\ GitIdle
    /\ DeployIdle
    /\ BrowseIdle

SpecLog == InitLog /\ [][NextLog]_vars

\* One call of deploy(), with any confirmDeployment, settings and context.
InitDeploy ==
    /\ \E confirmDeployment \in BOOLEAN : deployCall = NewDeploy(confirmDeployment)
    /\ context \in [deployedWithConfigs : {FALSE}, configurationTarget : {"Global", "Workspace"},
                     telemetry : {[deployedWithConfigs |-> "", cancelStep |-> ""]}]
    /\ showBuildDuringDeployPrompt \in BOOLEAN
    /\ defaultWebAppToDeploy \in {"", "a web app"}
    /\ listening = FALSE
    /\ created = <<>>
    /\ steps = <<>>
    /\ savePrompt = "none"
    /\ notification = "none"
    /\ validation = "none"
    /\ LabelIdle
    /\ GitIdle
    /\ LogIdle
    /\ BrowseIdle

SpecDeploy == InitDeploy /\ [][NextDeploy]_vars

\* A node of any site; browse() is called on it.
InitBrowse ==
    /\ site \in Sites
    /\ browsed = <<>>
    /\ LabelIdle
    /\ GitIdle
    /\ LogIdle
    /\ DeployIdle

SpecBrowse == InitBrowse /\ [][NextBrowse]_vars

\* ---------------------------------------------- the label parser's claims

\* The vocabulary of the claims about the parser.

\* The id contains the four markers of a Cosmos DB ARM resource id, in order.
WellFormedCosmos(s) ==
    \E i \in Pos(s, Subscriptions, 1, Len(s)) :
      \E j \in Pos(s, ResourceGroups, i + 1, Len(s)) :
        \E k \in Pos(s, Providers, j + 1, Len(s)) :
          Pos(s, DatabaseAccounts, k + 1, Len(s)) # {}

\* The id contains the attached-account marker and is no Cosmos DB ARM id.
WellFormedAttached(s) ==
    Pos(s, AttachedAccounts, 1, Len(s)) # {} /\ ~WellFormedCosmos(s)

\* A token that holds a '/': every marker ends with one.
HasSlash(tok) == tok \in Markers \cup {Slash}

\* The last '/'-separated path segment of s.
LastSegment(s) ==
    LET P == {p \in 1..Len(s) : HasSlash(s[p])} IN
    IF P = {} THEN s ELSE SubSeq(s, Max(P) + 1, Len(s))

NoLineBreak(s) == \A p \in 1..Len(s) : s[p] # LineBreak

NoSlash(s) == \A p \in 1..Len(s) : ~HasSlash(s[p])

\* What follows the last, and the first, occurrence of tok in s.
AfterLast(s, tok) == SubSeq(s, Max(Pos(s, tok, 1, Len(s))) + 1, Len(s))

AfterFirst(s, tok) == SubSeq(s, Min(Pos(s, tok, 1, Len(s))) + 1, Len(s))

\* C1, as stated: constructing a CosmosDBDatabase from a well-formed Cosmos DB
\* ARM resource id sets label to the last '/'-separated segment of the id.
C1_LabelIsLastSegment ==
    (ctor # "new" /\ WellFormedCosmos(connectionId))
        => (ctor = "constructed" /\ label = LastSegment(connectionId))

\* C1, amended: for a well-formed Cosmos DB ARM resource id with no line
\* terminator in it, the constructor sets label to everything that follows
\* the last 'databaseAccounts/' of the id; that is the last path segment
\* exactly when it holds no '/'.
C1_LabelIsRestAfterDatabaseAccounts ==
    (ctor # "new" /\ WellFormedCosmos(connectionId) /\ NoLineBreak(connectionId))
        => /\ ctor = "constructed"
           /\ label = AfterLast(connectionId, DatabaseAccounts)
           /\ (label = LastSegment(connectionId)) <=> NoSlash(label)

\* A Cosmos DB ARM resource id with a path below the account has been parsed.
C1_Witness ==
    /\ ctor = "constructed"
    /\ WellFormedCosmos(connectionId) /\ NoLineBreak(connectionId)
    /\ label = <<"a", Slash, "a">>

\* C2, as stated: constructing a CosmosDBDatabase from a well-formed
\* attached-account id sets label to the last '/'-separated segment of the id.
C2_AttachedLabelIsLastSegment ==
    (ctor # "new" /\ WellFormedAttached(connectionId))
        => (ctor = "constructed" /\ label = LastSegment(connectionId))

\* C2, amended: for a well-formed attached-account id with no line terminator
\* in it, the constructor sets label to everything that follows the first
\* 'cosmosDBAttachedAccounts/' of the id; that is the last path segment
\* exactly when it holds no '/'.
C2_LabelIsRestAfterAttachedAccounts ==
    (ctor # "new" /\ WellFormedAttached(connectionId) /\ NoLineBreak(connectionId))
        => /\ ctor = "constructed"
           /\ label = AfterFirst(connectionId, AttachedAccounts)
           /\ (label = LastSegment(connectionId)) <=> NoSlash(label)

\* An attached-account id with a path below the account has been parsed.
C2_Witness ==
    /\ ctor = "constructed"
    /\ WellFormedAttached(connectionId) /\ NoLineBreak(connectionId)
    /\ label = <<"a", Slash, "a">>

\* C3: the constructor throws 'Failed to parse connection id', and assigns no
\* label, for every id that is neither a well-formed Cosmos DB ARM id nor a
\* well-formed attached-account id; and the constructor never yields an empty
\* or undefined label.
C3_MalformedThrowsAndLabelNeverEmpty ==
    /\ (ctor # "new" /\ ~WellFormedCosmos(connectionId) /\ ~WellFormedAttached(connectionId))
          => (ctor = "threw" /\ ctorError = ParseFailure /\ label = NoLabel)
    /\ ctor = "constructed" => (label # <<>> /\ label # NoLabel)

\* ---------------------------------------------- the claims of localGitDeploy

\* How often x occurs in the log.
Count(log, x) == Cardinality({p \in 1..Len(log) : log[p] = x})

\* The deployment lists the call has asked for.
Listings == Count(armCalls, WebApps("listDeployments"))

\* The messages shown, without their order.
Shown == {shown[p] : p \in 1..Len(shown)}

Contains(message, text) == \E p \in 1..Len(message) : message[p] = text

Finished == localGit.pc \in {"resolved", "rejected"}

\* C4: when the configuration that localGitDeploy has read (with the
\* credentials and the deployment list, lines 131-139) has an scmType other
\* than 'LocalGit', the 'not set up' error message is shown with the one
\* action 'Go to Portal', the portal is opened if and only if the user picks
\* that action, the call ends rejected with that error, and git is not run.
C4_NotSetUpIsReportedAndGitNotRun ==
    (localGit.config \notin {"unread", LocalGit})
        => /\ gitCalls = <<>>
           /\ localGit.pc # "resolved"
           /\ localGit.oldDeployment # NotListed
                => /\ shown = <<ErrorMessage(NotSetUp, <<GoToPortal>>)>>
                   /\ localGit.pc \in {"showNotSetUp", "rejected"}
                   /\ localGit.pc = "showNotSetUp" => opened = <<>>
                   /\ localGit.pc = "rejected"
                        => /\ localGit.thrown = NewError(NotSetUp)
                           /\ opened = IF localGit.input = GoToPortal
                                       THEN <<PortalDeepLink>> ELSE <<>>

\* The call has ended on a site set up for GitHub, the user having picked 'Go to Portal'.
C4_Witness ==
    /\ localGit.pc = "rejected"
    /\ localGit.config = "GitHub"
    /\ localGit.input = GoToPortal
    /\ opened = <<PortalDeepLink>>

\* C5: a force push is issued only after a plain push of the same call failed
\* with a message that contains 'error: failed to push' and the user answered
\* 'Yes'; it is issued at most once, no other git call is repeated, and when
\* the user does not answer 'Yes' the push's error is rethrown.
C5_ForcePushOnlyAfterRejectedPush ==
    /\ Count(gitCalls, "push -f") <= 1
    /\ Count(gitCalls, "push") <= 1
    /\ Count(gitCalls, "init") <= 1
    /\ Count(gitCalls, "push -f") = 1
         => /\ gitCalls = <<"init", "push", "push -f">>
            /\ localGit.err.from = "git.push"
            /\ Contains(localGit.err.message, PushFailed)
            /\ localGit.input = Yes
    /\ (ErrorMessage(PushRejected, <<Yes>>) \in Shown
            /\ localGit.pc # "showPushRejected" /\ localGit.input # Yes)
         => /\ localGit.pc = "rejected"
            /\ localGit.thrown = localGit.err
            /\ localGit.err.from = "git.push"

\* C6: when git.init or git.push fails with a message that contains
\* 'spawn git ENOENT', the 'Git must be installed' message is shown with the
\* one action 'Install', the download page is opened if and only if the user
\* picks 'Install', the error is rethrown whatever the answer, and there is no
\* force push and no second listing of the deployments.
C6_GitNotInstalledIsReportedAndRethrown ==
    \A p \in 1..Len(gitErrors) :
        (gitErrors[p].from \in {"git.init", "git.push"}
            /\ Contains(gitErrors[p].message, GitNotInstalled))
        => /\ shown = <<ErrorMessage(GitRequired, <<Install>>)>>
           /\ localGit.pc \in {"showGitRequired", "rejected"}
           /\ localGit.pc = "showGitRequired" => opened = <<>>
           /\ localGit.pc = "rejected"
                => /\ localGit.thrown = gitErrors[p]
                   /\ opened = IF localGit.input = Install THEN <<GitDownloads>> ELSE <<>>
           /\ Count(gitCalls, "push -f") = 0
           /\ Listings = 1

\* The push has failed with a message that holds both texts, and the user has
\* picked 'Install'.
C6_Witness ==
    /\ localGit.pc = "rejected"
    /\ localGit.err.from = "git.push"
    /\ Contains(localGit.err.message, GitNotInstalled)
    /\ Contains(localGit.err.message, PushFailed)
    /\ localGit.input = Install
    /\ opened = <<GitDownloads>>

\* The id of the newest deployment of a list; 0 when the site has none.
Newest(history) == IF history = <<>> THEN 0 ELSE history[1].deploymentId

\* C7: for any deployment lists before and after the push (a site that had no
\* deployment included), once the push or the force push has succeeded and the
\* deployments are listed again, the call resolves to true exactly when the
\* newest deployment's id has changed, and otherwise shows the 'repo is
\* current' warning and rejects with that message.
C7_ResolvesTrueIffNewestDeploymentChanged ==
    (localGit.newDeployment # NotListed)
        => IF Newest(localGit.newDeployment) # Newest(localGit.oldDeployment)
           THEN localGit.pc = "resolved" /\ localGit.returned = "true"
           ELSE /\ WarningMessage(RepoIsCurrent) \in Shown
                /\ localGit.pc \in {"showRepoIsCurrent", "rejected"}
                /\ localGit.pc = "rejected" => localGit.thrown = NewError(RepoIsCurrent)

\* C8: a failure of git.init or git.push whose message contains neither
\* 'spawn git ENOENT' nor 'error: failed to push', and any failure of the
\* force push, ends the call at once, rejected with that very error: no
\* message is shown for it, no git call and no listing follows it.
C8_OtherGitErrorsPropagate ==
    \A p \in 1..Len(gitErrors) :
        LET e == gitErrors[p] IN
        /\ (e.from \in {"git.init", "git.push"}
               /\ ~Contains(e.message, GitNotInstalled) /\ ~Contains(e.message, PushFailed))
             => /\ localGit.pc = "rejected" /\ localGit.thrown = e
                /\ shown = <<>> /\ opened = <<>>
                /\ gitCalls = (IF e.from = "git.init" THEN <<"init">> ELSE <<"init", "push">>)
                /\ Listings = 1
        /\ e.from = "git.push -f"
             => /\ localGit.pc = "rejected" /\ localGit.thrown = e
                /\ shown = <<ErrorMessage(PushRejected, <<Yes>>)>> /\ opened = <<>>
                /\ gitCalls[Len(gitCalls)] = "push -f" /\ Count(gitCalls, "push -f") = 1
                /\ Listings = 1

\* The force push has failed, after a push that failed.
C8_Witness ==
    /\ Len(gitErrors) = 2
    /\ gitErrors[1].from = "git.push"
    /\ gitErrors[2].from = "git.push -f"
    /\ gitErrors[2].message = <<"fatal: ">>
    /\ localGit.pc = "rejected"

\* C19: when the configuration that localGitDeploy has read (with the
\* credentials and the deployment list, lines 131-139) has the scmType
\* 'LocalGit' and no workspace folder is open, the message 'You have not yet
\* opened a folder to deploy.' is shown, and the call ends with no git init
\* and no git push, with the deployments not listed again, and not resolved
\* to true.
C19_NoFolderOpenIsReportedAndGitNotRun ==
    (localGit.config = LocalGit /\ ~rootPath /\ localGit.oldDeployment # NotListed)
        => /\ shown = <<ErrorMessage(NoFolderOpen, <<>>)>>
           /\ gitCalls = <<>>
           /\ Listings = 1
           /\ opened = <<>>
           /\ localGit.pc \in {"showNoFolderOpen", "resolved"}
           /\ localGit.returned # "true"
           /\ localGit.pc = "resolved" => localGit.returned = "undefined"

\* The call has ended on a LocalGit site with no folder open.
C19_Witness ==
    /\ localGit.pc = "resolved"
    /\ localGit.config = LocalGit
    /\ ~rootPath
    /\ shown = <<ErrorMessage(NoFolderOpen, <<>>)>>

\* ------------------------------------------------ the claims of deploy()

\* The calls deploy() has made or seen return.
Steps == {steps[p] : p \in 1..Len(steps)}

\* C9: deploy() does not wait for its notifications.  Once appservice.deploy
\* has succeeded the call is resolved, whether or not the 'completed'
\* notification is answered, the save-deploy-defaults prompt is answered or
\* validateWebSite settles; a rejection of validateWebSite, or of the prompt,
\* leaves a call that got that far resolved, and no call is rejected with it.
C9_DeployDoesNotWaitForNotifications ==
    /\ "appservice.deploy done" \in Steps => deployCall.pc = "resolved"
    /\ validation # "none" => deployCall.pc = "resolved"
    /\ notification # "none" => deployCall.pc = "resolved"
    /\ deployCall.pc = "rejected" =>
         deployCall.thrown.from \notin
             {"validateWebSite", "showInformationMessage", "promptToSaveDeployDefaults"}

\* deploy() has resolved with the notification and the prompt unanswered and
\* validateWebSite unsettled.
C9_Witness ==
    /\ deployCall.pc = "resolved"
    /\ "appservice.deploy done" \in Steps
    /\ notification = "pending"
    /\ savePrompt = "pending"
    /\ validation = "pending"

\* The confirmation dialog was required: deploy() has shown it.
DialogShown == "showWarningMessage" \in Steps

\* The call went on to deploy: the pre-deploy task, or appservice.deploy.
WentOn ==
    Steps \cap {"setPreDeployTaskForDotnet", "runPreDeployTask", "appservice.deploy"} # {}

\* C12: when the confirmation dialog is required, the pre-deploy task and
\* appservice.deploy run only if the user answered it with 'Deploy'; when the
\* user cancels it or picks 'Reset default', the call does not invoke
\* appservice.deploy.
C12_DeploysOnlyWhenConfirmed ==
    /\ DialogShown /\ WentOn => deployCall.result = DeployButton
    /\ DialogShown /\ deployCall.result = ResetDefault => ~WentOn
    /\ DialogShown /\ deployCall.thrown = UserCancelled("showWarningMessage") => ~WentOn

\* The dialog was answered with 'Deploy', and appservice.deploy was invoked.
C12_Witness ==
    /\ DialogShown
    /\ deployCall.result = DeployButton
    /\ "appservice.deploy" \in Steps

\* The node n was created, and reported to this call's listener, during the
\* selection step: while onTreeItemCreate was subscribed (lines 114-129).
CreatedWhileSelecting(n) ==
    \E p \in 1..Len(created) : created[p].fullId = n /\ created[p].listened

\* The node n was created before or after the selection step.
CreatedOutsideSelecting(n) ==
    \E p \in 1..Len(created) : created[p].fullId = n /\ ~created[p].listened

\* C13: when the node selected was created during the call's selection step,
\* the confirmation dialog is not shown, also with confirmDeployment passed
\* as true; a node created before or after the selection step leaves
\* confirmDeployment as it was passed.
C13_NewNodeIsNotConfirmed ==
    /\ deployCall.node # NoNode /\ CreatedWhileSelecting(deployCall.node)
         => /\ ~deployCall.confirmDeployment
            /\ "delay" \notin Steps
            /\ ~DialogShown
    /\ deployCall.node # NoNode /\ ~CreatedWhileSelecting(deployCall.node)
         => deployCall.confirmDeployment = deployCall.passed
    /\ deployCall.node = NoNode => deployCall.confirmDeployment = deployCall.passed

\* A call with confirmDeployment passed as true selected a node created
\* during the selection step, while another was created before or after it,
\* and went on to deploy with no dialog.
C13_Witness ==
    /\ deployCall.passed
    /\ deployCall.node # NoNode
    /\ CreatedWhileSelecting(deployCall.node)
    /\ \E n \in Nodes : n # deployCall.node /\ CreatedOutsideSelecting(n)
    /\ deployCall.siteConfig.scmType = ScmNone
    /\ "appservice.deploy" \in Steps

\* The places of a call in steps.
Places(step) == {p \in 1..Len(steps) : steps[p] = step}

\* C14: when the user picks 'Reset default' in the confirmation dialog and
\* the calls that follow succeed, the setting defaultWebAppToDeploy is set to
\* the empty string, after that the command 'appService.Deploy' is executed,
\* and the call returns without the pre-deploy task, appservice.deploy, the
\* completion notification or validateWebSite; 'Reset default' is offered only
\* when context.deployedWithConfigs is set.
C14_ResetDefaultResetsAndReturns ==
    /\ (\E p \in 1..Len(deployCall.items) : deployCall.items[p] = ResetDefault)
          => context.deployedWithConfigs
    /\ deployCall.result = ResetDefault
          => /\ ~WentOn
             /\ Steps \cap {"appendLine", "showInformationMessage", "validateWebSite"} = {}
             /\ notification = "none" /\ validation = "none"
             /\ "appService.Deploy" \in Steps
                   => /\ defaultWebAppToDeploy = ""
                      /\ \E p \in Places("updateWorkspaceSetting") :
                            p < Min(Places("appService.Deploy"))
             /\ deployCall.pc = "resolved"
                   => /\ defaultWebAppToDeploy = ""
                      /\ steps[Len(steps)] = "appService.Deploy"
    /\ "appService.Deploy" \in Steps => deployCall.result = ResetDefault

\* 'Reset default' was picked, the command was executed and the call returned.
C14_Witness ==
    /\ deployCall.result = ResetDefault
    /\ deployCall.pc = "resolved"
    /\ "appService.Deploy" \in Steps
    /\ defaultWebAppToDeploy = ""

\* The call has passed the test of line 170.
PastConfirm == DialogShown \/ "delay" \in Steps \/ WentOn

\* C15: the confirmation dialog is shown if and only if confirmDeployment is
\* still true after the check of the new nodes and the site's scmType is
\* neither LocalGit nor GitHub; for a LocalGit or GitHub site it is never shown.
C15_DialogIffConfirmAndNotGit ==
    /\ PastConfirm =>
         ("delay" \in Steps
            <=> /\ deployCall.confirmDeployment
                /\ deployCall.siteConfig.scmType \notin {LocalGit, GitHub})
    /\ deployCall.siteConfig.scmType \in {LocalGit, GitHub} => ~DialogShown

\* The step later happened only after the step earlier.
Before(earlier, later) ==
    later \in Steps
        => /\ earlier \in Steps
           /\ Min(Places(earlier)) < Min(Places(later))

\* What deploy() does once appservice.deploy has succeeded.
AfterDeploy == {"appendLine", "showInformationMessage", "validateWebSite"}

\* C16: in a call that reaches deployment the pre-deploy task completes, then
\* cancelWebsiteValidation(node) is called, then appservice.deploy runs, and
\* only after it has succeeded are the completion message written, the
\* notification shown and validateWebSite started; when the pre-deploy task
\* or appservice.deploy fails, none of the later steps happens.
C16_DeployStepsInOrder ==
    /\ Before("runPreDeployTask", "runPreDeployTask done")
    /\ Before("runPreDeployTask done", "cancelWebsiteValidation")
    /\ Before("cancelWebsiteValidation", "appservice.deploy")
    /\ Before("appservice.deploy", "appservice.deploy done")
    /\ \A step \in AfterDeploy : Before("appservice.deploy done", step)
    /\ notification # "none" => "showInformationMessage" \in Steps
    /\ validation # "none" => "validateWebSite" \in Steps
    /\ deployCall.thrown = Failure("runPreDeployTask")
         => /\ Steps \cap ({"cancelWebsiteValidation", "appservice.deploy",
                            "appservice.deploy done"} \cup AfterDeploy) = {}
            /\ notification = "none" /\ validation = "none"
    /\ deployCall.thrown = Failure("appservice.deploy")
         => /\ Steps \cap ({"appservice.deploy done"} \cup AfterDeploy) = {}
            /\ notification = "none" /\ validation = "none"

\* A call has deployed and done all that follows; the failures of the
\* pre-deploy task and of appservice.deploy are other behaviours of the
\* same specification.
C16_Witness ==
    /\ AfterDeploy \subseteq Steps
    /\ "cancelWebsiteValidation" \in Steps
    /\ deployCall.pc = "resolved"

\* ------------------------------------------------ the claims of the log stream

\* The places of the output where stopLogStream() reported that it stopped s.
StoppedAt(s) ==
    {p \in 1..Len(output) : output[p].by = "stopLogStream" /\ output[p].stream = s}

\* What a listener of s gave to the output channel.
FromListener(line, s) == line.stream = s /\ line.by \in AllListeners

\* The step of a stopLogStream() call, made on the node, that found the
\* stream s: it reports the stop, and opens no stream.
StopReturns(s) ==
    /\ _logStream = s
    /\ Len(streams') = Len(streams)
    /\ output' = Append(output, Line(Disconnected, "stopLogStream", s))

\* C10: after stopLogStream() has returned on a node that had a log stream,
\* the node holds no stream, the former stream has no listener left and is
\* destroyed, and no event the former stream emits afterwards gives anything
\* to the output channel.
C10_StoppedStreamIsDetached ==
    /\ [](\A s \in 1..Len(streams) :
            StoppedAt(s) # {}
                => /\ _logStream # s
                   /\ streams[s].listeners = {}
                   /\ streams[s].destroyed
                   /\ \A p \in 1..Len(output) :
                        p > Min(StoppedAt(s)) => ~FromListener(output[p], s))
    /\ [][\A s \in 1..Len(streams) : StopReturns(s) => _logStream' = NoStream]_vars

\* A stream has emitted 'data', 'error' and 'complete' after it was stopped.
C10_Witness ==
    \E s \in 1..Len(streams) :
        /\ StoppedAt(s) # {}
        /\ \A name \in AllListeners :
             \E p \in 1..Len(events) :
                /\ events[p].stream = s /\ events[p].name = name
                /\ events[p].at >= Min(StoppedAt(s))

\* The streams that are not destroyed and have a listener.
Live == {s \in 1..Len(streams) : ~streams[s].destroyed /\ streams[s].listeners # {}}

\* C11: whatever way connectToLogStream and stopLogStream calls interleave,
\* a connectToLogStream started while an earlier one awaits the publish
\* credentials included, at most one stream of the node is not destroyed and
\* has listeners, that stream is the one _logStream refers to, and every
\* earlier stream is destroyed.
C11_AtMostOneLiveStream ==
    /\ Cardinality(Live) <= 1
    /\ \A s \in Live : _logStream = s
    /\ \A s \in 1..Len(streams) : s # Len(streams) => streams[s].destroyed
    /\ \A s \in 1..Len(streams) : s # _logStream => streams[s].destroyed

\* Two connectToLogStream calls overlapped, the second getting its
\* credentials first: the stream of the second is destroyed, the stream of
\* the first is the node's.
C11_Witness ==
    /\ Len(streams) = 2
    /\ streams[1].call = 2
    /\ streams[2].call = 1
    /\ streams[1].destroyed
    /\ Live = {2}
    /\ _logStream = 2

\* No connectToLogStream call awaits its credentials.
NonePending == \A c \in 1..Len(connects) : connects[c] # "getWebAppPublishCredential"

\* C17: once stopLogStream() has been called and no connectToLogStream() is
\* started after it, no stream of the node is live when all pending
\* operations have finished, also when stopLogStream() was called while a
\* connectToLogStream() awaited the publish credentials.
C17_NoLiveStreamAfterStop ==
    lastCall = "stopLogStream" /\ NonePending => Live = {} /\ _logStream = NoStream

\* C18: for each stream the node connects, 'Disconnected from log-streaming
\* service.' is given to the output channel at most once, whatever the
\* stream's complete event, stopLogStream() and later connectToLogStream()
\* calls do; a stopLogStream() on a node without a stream gives nothing.
C18_DisconnectedAtMostOncePerStream ==
    /\ \A s \in 1..Len(streams) :
          Cardinality({p \in 1..Len(output) :
                          output[p].text = Disconnected /\ output[p].stream = s}) <= 1
    /\ \A p \in 1..Len(output) :
          output[p].by = "stopLogStream" => output[p].stream # NoStream

\* ------------------------------------------------ the claims of browse()

\* hostNameSslStates has, at some place, an entry of the default host name
\* whose sslState is 'Enabled'.
SslEnabled(of) ==
    \E p \in 1..Len(of.hostNameSslStates) :
        /\ of.hostNameSslStates[p].name = of.defaultHostName
        /\ of.hostNameSslStates[p].sslState = Enabled

\* C20: browse() opens 'https://<defaultHostName>' if and only if the site's
\* hostNameSslStates has an entry for the default host name with sslState
\* 'Enabled', at any place of the list; otherwise 'http://<defaultHostName>'.
C20_HttpsIffSslEnabled ==
    \A p \in 1..Len(browsed) :
        browsed[p] = <<IF SslEnabled(site) THEN "https://" ELSE "http://",
                       site.defaultHostName>>

====
